---- MODULE Spec2Model ----
(***************************************************************************)
(* Model of the two Playwright harness scripts of the zVault frontend:     *)
(*   frontend/test-zk-proof.py  (test_zk_setup,     prog = "zk")           *)
(*   frontend/test-proof.py     (test_deposit_flow, prog = "dep")          *)
(* One run of one script is a sequence of browser calls.  The page, the    *)
(* HTTP server and the browser are the environment: every browser call     *)
(* draws its outcome (element count, raised error, HTTP status, console    *)
(* events dispatched while the call is pending) from a small set.          *)
(* Console lines are sequences of one-character strings, so that           *)
(* "in", str.lower() and the f-string are computed character by character. *)
(***************************************************************************)
EXTENDS Naturals, Integers, Sequences, FiniteSets, TLC

VARIABLES prog, pc, console_logs, status, results, clicked,
          poseidon_logs, zk_logs, raw_window,
          circuit_files_ok, poseidon_ok, summary, crash_cause, logs_read,
          settled, fallback

vars == <<prog, pc, console_logs, status, results, clicked,
          poseidon_logs, zk_logs, raw_window,
          circuit_files_ok, poseidon_ok, summary, crash_cause, logs_read,
          settled, fallback>>

(* ------------------------------ bounds --------------------------------- *)

\* most console events dispatched to the handler in one run
MaxLogs == 2

\* longest buffer the report stage is started on in SpecWindow
MaxWindowLogs == 32

(* ------------------------- character strings --------------------------- *)

UpperAlpha == <<"A","B","C","D","E","F","G","H","I","J","K","L","M","N","O","P","Q","R","S","T","U","V","W","X","Y","Z">>
LowerAlpha == <<"a","b","c","d","e","f","g","h","i","j","k","l","m","n","o","p","q","r","s","t","u","v","w","x","y","z">>

\* the lower-case letter of every upper-case letter
LowerMap ==
    [c \in {UpperAlpha[k] : k \in DOMAIN UpperAlpha} |->
        LowerAlpha[CHOOSE k \in DOMAIN UpperAlpha : UpperAlpha[k] = c]]

\* str.lower() on one character
LowerChar(c) == IF c \in DOMAIN LowerMap THEN LowerMap[c] ELSE c

\* str.lower()
Lower(s) == [i \in 1..Len(s) |-> LowerChar(s[i])]

UpperMap ==
    [c \in {LowerAlpha[k] : k \in DOMAIN LowerAlpha} |->
        UpperAlpha[CHOOSE k \in DOMAIN LowerAlpha : LowerAlpha[k] = c]]

\* str.upper() on one character (used only to build case permutations)
UpperChar(c) == IF c \in DOMAIN UpperMap THEN UpperMap[c] ELSE c

Upper(s) == [i \in 1..Len(s) |-> UpperChar(s[i])]

\* Python "sub in s" on str: s has a slice equal to sub
Contains(s, sub) ==
    \E i \in 0..(Len(s) - Len(sub)) : SubSeq(s, i + 1, i + Len(sub)) = sub

(* ------------------------- program literals ---------------------------- *)

\* 'Poseidon note created'
Marker == <<"P","o","s","e","i","d","o","n"," ","n","o","t","e"," ","c","r","e","a","t","e","d">>

kw_Poseidon   == <<"P","o","s","e","i","d","o","n">>
kw_commitment == <<"c","o","m","m","i","t","m","e","n","t">>

\* ['zk', 'proof', 'snark', 'circom']
zk_setup_keywords ==
    { <<"z","k">>, <<"p","r","o","o","f">>, <<"s","n","a","r","k">>,
      <<"c","i","r","c","o","m">> }

\* zk_keywords of test_deposit_flow
zk_keywords ==
    { <<"D","e","p","o","s","i","t">>, <<"Z","K">>, <<"P","o","s","e","i","d","o","n">>,
      <<"p","r","o","o","f">>, <<"c","o","m","m","i","t","m","e","n","t">>,
      <<"n","u","l","l","i","f","i","e","r">>, <<"s","e","c","r","e","t">>,
      <<"n","o","t","e">>, <<"c","i","r","c","o","m">>, <<"s","n","a","r","k">>,
      <<"g","r","o","t","h","1","6">>, <<"w","a","s","m">>, <<"z","k","e","y">>,
      <<"P","r","e","p","a","r","e">>, <<"M","i","n","t">>, <<"A","m","o","u","n","t">>,
      <<"t","a","p","r","o","o","t">>, <<"a","d","d","r","e","s","s">> }

\* console_logs[-30:]
RawWindow == 30

(* --------------------------- environment ------------------------------- *)

\* console messages (msg.type, msg.text) the page may emit
MsgMarker ==
    [type |-> <<"l","o","g">>,
     text |-> <<"P","o","s","e","i","d","o","n"," ","n","o","t","e"," ","c","r","e","a","t","e","d">>]
MsgLowerMarker ==
    [type |-> <<"l","o","g">>,
     text |-> <<"p","o","s","e","i","d","o","n"," ","n","o","t","e"," ","c","r","e","a","t","e","d">>]
MsgCommitment ==
    [type |-> <<"e","r","r","o","r">>,
     text |-> <<"Z","K"," ","C","o","m","m","i","t","m","e","n","t",":"," ","P","O","S","E","I","D","O","N"," ","N","O","T","E"," ","C","R","E","A","T","E","D">>]
MsgOther ==
    [type |-> <<"w","a","r","n","i","n","g">>,
     text |-> <<"r","e","a","d","y">>]

\* The messages drawn in a run of each script: test_zk_setup evaluates three
\* filters and the marker, test_deposit_flow one filter.
Msgs(p) ==
    IF p = "zk" THEN {MsgMarker, MsgLowerMarker, MsgCommitment, MsgOther}
    ELSE {MsgMarker, MsgOther}

\* HTTP statuses a probe may answer with
Statuses == {200, 204, 404}

Resources == {"wasm", "zkey", "vk"}

\* f"[{msg.type}] {msg.text}"
Format(msg) == <<"[">> \o msg.type \o <<"]", " ">> \o msg.text

\* OnConsole inserting the new line at the front of the list
OnConsole_prepend(logs, msg) == <<Format(msg)>> \o logs

\* the console handler: console_logs.append(f"[{msg.type}] {msg.text}")
OnConsole(logs, msg) == Append(logs, Format(msg))

\* Events dispatched to the handler while one browser call is pending:
\* none, or one message of the page.
Dispatch(logs) ==
    {logs} \cup (IF Len(logs) < MaxLogs THEN {OnConsole(logs, m) : m \in Msgs(prog)} ELSE {})

\* the positions of the report stage: plain Python, no call into the browser
HarnessLogic == {"report", "report_raw"}

\* Pending treating every statement as a browser call
Pending_always(at, logs) == Dispatch(logs)

\* The buffers the statement at position at may leave behind: the console
\* handler runs only while a browser call is pending.
Pending(at, logs) == IF at \in HarnessLogic THEN {logs} ELSE Dispatch(logs)

(* ----------------------------- the flows ------------------------------- *)

\* ZkFlow with the report stage moved ahead of the last step
ZkFlow_reportBeforeDeposit ==
    <<"probe_wasm", "probe_zkey", "probe_vk", "goto",
      "generate_btn", "continue_btn", "amount_input", "checkbox_label",
      "settle", "report", "deposit_btn", "close", "done">>

ZkFlow ==
    <<"probe_wasm", "probe_zkey", "probe_vk", "goto",
      "generate_btn", "continue_btn", "amount_input", "checkbox_label",
      "settle", "deposit_btn", "report", "close", "done">>

\* DepFlow with the Mint stanza ahead of the Mock stanza
DepFlow_mintBeforeMock ==
    <<"goto", "shot1", "generate_btn", "shot2", "continue_btn", "shot3",
      "amount_input", "shot4", "checkbox_label", "wait300", "deposit_btn",
      "shot6", "sent_btn", "shot7", "mint_btn", "mock_btn",
      "shot8", "wait2000", "shot5", "report", "report_raw", "close", "done">>

DepFlow ==
    <<"goto", "shot1", "generate_btn", "shot2", "continue_btn", "shot3",
      "amount_input", "shot4", "checkbox_label", "wait300", "deposit_btn",
      "shot6", "sent_btn", "shot7", "mock_btn", "mint_btn",
      "shot8", "wait2000", "shot5", "report", "report_raw", "close", "done">>

Flow(p) == IF p = "zk" THEN ZkFlow ELSE DepFlow

IndexOf(seq, x) == CHOOSE i \in DOMAIN seq : seq[i] = x

\* the statement after the one at position at
NextPc(p, at) == Flow(p)[IndexOf(Flow(p), at) + 1]

\* the try/except block of test_deposit_flow a step stands in, in file order
TryBlock(step) ==
    CASE step \in {"generate_btn", "continue_btn"} -> 1
      [] step \in {"amount_input", "checkbox_label", "deposit_btn"} -> 2
      [] step = "sent_btn" -> 3
      [] step \in {"mock_btn", "mint_btn"} -> 4

\* Handler with no try/except around the steps
Handler_uncaught(p, at) == "crashed"

\* where control goes when the call at position at raises: the statement
\* after the enclosing try/except, or out of the function
Handler(p, at) ==
    IF p = "dep" /\ at \in {"generate_btn", "shot2", "continue_btn"} THEN "shot3"
    ELSE IF p = "dep" /\ at \in {"amount_input", "shot4", "checkbox_label",
                                 "wait300", "deposit_btn"} THEN "shot6"
    ELSE IF p = "dep" /\ at = "sent_btn" THEN "shot7"
    ELSE IF p = "dep" /\ at \in {"mock_btn", "mint_btn"} THEN "shot8"
    ELSE "crashed"

\* the steps of the workflow, in declared order
ZkSteps  == <<"generate_btn", "continue_btn", "amount_input", "checkbox_label", "deposit_btn">>
DepSteps == <<"generate_btn", "continue_btn", "amount_input", "checkbox_label", "deposit_btn",
              "sent_btn", "mock_btn", "mint_btn">>
Steps(p) == IF p = "zk" THEN ZkSteps ELSE DepSteps

\* locator and action of a plain step
SelectorOf(step) ==
    CASE step = "generate_btn"  -> "button:has-text(Generate)"
      [] step = "continue_btn"  -> "button:has-text(Continue)"
      [] step = "amount_input"  -> "input[type=number]"
      [] step = "checkbox_label" -> "label:has(input[type=checkbox])"
      [] step = "deposit_btn"   -> "button:has-text(Get Deposit Address)"
      [] step = "sent_btn"      -> "button:has-text(Sent the BTC)"
      [] step = "mock_btn"      -> "button:has-text(Mock)"
      [] step = "mint_btn"      -> "button:has-text(Mint)"

ActionOf(step) == IF step = "amount_input" THEN "fill" ELSE "click"

\* page.wait_for_timeout(ms) inside the stanza, after the action (0: none)
SettleMs(p, step) ==
    CASE step \in {"generate_btn", "continue_btn"} -> 500
      [] step \in {"amount_input", "checkbox_label"} -> 0
      [] step = "deposit_btn" -> 5000
      [] step \in {"sent_btn", "mock_btn"} -> 3000
      [] step = "mint_btn" -> 10000

ContainerSelector == "div:has(> input[type=checkbox])"

\* the locators tried for the confirmation checkbox, in order
ToggleSelectors(p) ==
    IF p = "dep" THEN <<SelectorOf("checkbox_label"), ContainerSelector>>
    ELSE <<SelectorOf("checkbox_label")>>

\* outcome of one guarded stanza "if x.count() > 0: x.first.<action>()"
Outcomes == {"absent", "done", "error"}

\* what the stanza did, as a record
StepResult(step, outcome) ==
    [step |-> step,
     matched |-> outcome # "absent",
     actionTaken |-> outcome = "done",
     error |-> outcome = "error"]

\* Dispatched without the count() > 0 guard
Dispatched_unguarded(done, sel, act, outcome) ==
    IF outcome # "error" THEN Append(done, [selector |-> sel, action |-> act]) ELSE done

\* actions dispatched to the page: only when count() > 0 and the call returned
Dispatched(done, sel, act, outcome) ==
    IF outcome = "done" THEN Append(done, [selector |-> sel, action |-> act]) ELSE done

(* ------------------------ report computations -------------------------- *)

\* PoseidonSel keeping the 'commitment' lines only
PoseidonSel_commitmentOnly(log) == Contains(Lower(log), kw_commitment)

\* 'Poseidon' in log or 'commitment' in log.lower()
PoseidonSel(log) == Contains(log, kw_Poseidon) \/ Contains(Lower(log), kw_commitment)

\* any(kw in log.lower() for kw in ['zk', 'proof', 'snark', 'circom'])
ZkSetupSel(log) ==
    LET low == Lower(log) IN \E kw \in zk_setup_keywords : Contains(low, kw)

\* any(kw.lower() in log.lower() for kw in zk_keywords)
ZkDepositSel(log) ==
    LET low == Lower(log) IN \E kw \in zk_keywords : Contains(low, Lower(kw))

\* PoseidonLogs collecting the selected lines newest first
PoseidonLogs_reversed(logs) ==
    LET sel == SelectSeq(logs, PoseidonSel)
    IN  [i \in 1..Len(sel) |-> sel[Len(sel) + 1 - i]]

\* [log for log in console_logs if ...]
PoseidonLogs(logs)  == SelectSeq(logs, PoseidonSel)
ZkSetupLogs(logs)   == SelectSeq(logs, ZkSetupSel)
ZkDepositLogs(logs) == SelectSeq(logs, ZkDepositSel)

\* PoseidonOk comparing in lower case
PoseidonOk_nocase(logs) == \E i \in DOMAIN logs : Contains(Lower(logs[i]), Lower(Marker))

\* any('Poseidon note created' in log for log in poseidon_logs)
PoseidonOk(logs) == \E i \in DOMAIN logs : Contains(logs[i], Marker)

\* Ok accepting every 2xx status, as response.ok does
Ok_2xx(st) == st >= 200 /\ st < 300

\* response.status == 200
Ok(st) == st = 200

\* wasm_response.status == 200 and zkey_response.status == 200 and vk_response.status == 200
CircuitFilesOk(st) == Ok(st["wasm"]) /\ Ok(st["zkey"]) /\ Ok(st["vk"])

\* Summary with "or" in place of "and"
Summary_or(files_ok, pos_ok) ==
    IF files_ok \/ pos_ok THEN "ZK integration is properly set up!"
    ELSE "Some components are missing."

\* if circuit_files_ok and poseidon_ok: ... else: ...
Summary(files_ok, pos_ok) ==
    IF files_ok /\ pos_ok THEN "ZK integration is properly set up!"
    ELSE "Some components are missing."

\* LastN taking the first n lines, console_logs[:30]
LastN_first(logs, n) ==
    IF Len(logs) <= n THEN logs ELSE SubSeq(logs, 1, n)

\* console_logs[-30:]
LastN(logs, n) ==
    IF Len(logs) <= n THEN logs ELSE SubSeq(logs, Len(logs) - n + 1, Len(logs))

(* ------------------------------ Init ----------------------------------- *)

Init ==
    /\ prog \in {"zk", "dep"}
    /\ pc = Flow(prog)[1]
    /\ console_logs = <<>>
    /\ status = [r \in Resources |-> 0]
    /\ results = <<>>
    /\ clicked = <<>>
    /\ poseidon_logs = <<>>
    /\ zk_logs = <<>>
    /\ raw_window = <<>>
    /\ circuit_files_ok = FALSE
    /\ poseidon_ok = FALSE
    /\ summary = "none"
    /\ crash_cause = "none"
    /\ logs_read = -1
    /\ settled = TRUE
    /\ fallback = "none"

(* ----------------------------- actions --------------------------------- *)

ReportVars == <<poseidon_logs, zk_logs, raw_window, circuit_files_ok,
                poseidon_ok, summary, logs_read>>

\* the call returned: fall through to the next statement
Return == pc' = NextPc(prog, pc) /\ crash_cause' = crash_cause

\* the call raised: to the except clause, or out of the function
Raise(cause) ==
    /\ pc' = Handler(prog, pc)
    /\ crash_cause' = IF Handler(prog, pc) = "crashed" THEN cause ELSE crash_cause

ProbeResource(at) ==
    CASE at = "probe_wasm" -> "wasm"
      [] at = "probe_zkey" -> "zkey"
      [] at = "probe_vk"   -> "vk"

\* page.request.get(url): answers with a status, or raises on a network failure
Probe ==
    /\ prog = "zk"
    /\ pc \in {"probe_wasm", "probe_zkey", "probe_vk"}
    /\ \/ \E st \in Statuses :
            /\ status' = [status EXCEPT ![ProbeResource(pc)] = st]
            /\ Return
       \/ status' = status /\ Raise("probe")
    /\ UNCHANGED <<prog, console_logs, results, clicked, ReportVars, settled, fallback>>

\* page.goto(...); page.wait_for_load_state('networkidle')
\* goto raises when the navigation fails; wait_for_load_state raises
\* TimeoutError when the page is not idle within the default timeout
Goto ==
    /\ pc = "goto"
    /\ \/ console_logs' \in Dispatch(console_logs) /\ Return
       \/ console_logs' = console_logs /\ Raise("navigate")
       \/ console_logs' \in Dispatch(console_logs) /\ Raise("timeout")
    /\ UNCHANGED <<prog, status, results, clicked, ReportVars, settled, fallback>>

\* x = page.locator(sel); if x.count() > 0: x.first.click()/fill(); [wait_for_timeout]
Step ==
    /\ pc \in {"generate_btn", "continue_btn", "amount_input", "deposit_btn",
               "sent_btn", "mock_btn", "mint_btn"}
    /\ \E outcome \in Outcomes :
          /\ results' = Append(results, StepResult(pc, outcome))
          /\ clicked' = Dispatched(clicked, SelectorOf(pc), ActionOf(pc), outcome)
          /\ settled' = IF outcome = "done" THEN SettleMs(prog, pc) > 0 ELSE settled
          /\ console_logs' \in Dispatch(console_logs)
          /\ IF outcome = "error" THEN Raise("step") ELSE Return
    /\ UNCHANGED <<prog, status, ReportVars, fallback>>

\* The confirmation checkbox.  test_deposit_flow: the label, else the
\* container div (click(force=True)); test_zk_setup: the label only.
\* label and container are what the page holds for the two locators; the
\* container is looked at only in the else branch of test_deposit_flow.
Checkbox ==
    /\ pc = "checkbox_label"
    /\ \E label \in Outcomes, container \in Outcomes :
          LET chain == ToggleSelectors(prog)
              outcome == IF label # "absent" THEN label
                         ELSE IF Len(chain) > 1 THEN container ELSE "absent"
              sel == IF label # "absent" THEN chain[1] ELSE chain[Len(chain)]
          IN  /\ results' = Append(results, StepResult(pc, outcome))
              /\ clicked' = Dispatched(clicked, sel, "click", outcome)
              /\ settled' = IF outcome = "done" THEN SettleMs(prog, pc) > 0 ELSE settled
              /\ fallback' = IF label # "absent" THEN fallback
                             ELSE IF container = "absent" THEN "absent" ELSE "present"
              /\ console_logs' \in Dispatch(console_logs)
              /\ IF outcome = "error" THEN Raise("step") ELSE Return
    /\ UNCHANGED <<prog, status, ReportVars>>

\* page.wait_for_timeout(ms) on its own line
Wait ==
    /\ pc \in {"settle", "wait300", "wait2000"}
    /\ console_logs' \in Dispatch(console_logs)
    /\ settled' = TRUE
    /\ Return
    /\ UNCHANGED <<prog, status, results, clicked, ReportVars, fallback>>

\* page.screenshot(path=..., full_page=True)
\* (shot4 is wait_for_timeout(500) followed by the screenshot)
Screenshot ==
    /\ pc \in {"shot1", "shot2", "shot3", "shot4", "shot5", "shot6", "shot7", "shot8"}
    /\ \/ console_logs' \in Dispatch(console_logs) /\ Return
       \/ console_logs' = console_logs /\ Raise("screenshot")
    /\ settled' = IF pc = "shot4" THEN TRUE ELSE settled
    /\ UNCHANGED <<prog, status, results, clicked, ReportVars, fallback>>

\* the report stage: plain Python over console_logs, no browser call
\* (test_zk_setup: the filters and the summary; test_deposit_flow: the filter)
Report ==
    /\ pc = "report"
    /\ IF prog = "zk"
       THEN /\ poseidon_logs' = PoseidonLogs(console_logs)
            /\ zk_logs' = ZkSetupLogs(console_logs)
            /\ circuit_files_ok' = CircuitFilesOk(status)
            /\ poseidon_ok' = PoseidonOk(poseidon_logs')
            /\ summary' = Summary(circuit_files_ok', poseidon_ok')
       ELSE /\ zk_logs' = ZkDepositLogs(console_logs)
            /\ UNCHANGED <<poseidon_logs, circuit_files_ok, poseidon_ok, summary>>
    /\ raw_window' = raw_window
    /\ logs_read' = Len(console_logs)
    /\ console_logs' \in Pending(pc, console_logs)
    /\ Return
    /\ UNCHANGED <<prog, status, results, clicked, settled, fallback>>

\* test_deposit_flow: for log in console_logs[-30:]: print(log)
ReportRaw ==
    /\ pc = "report_raw"
    /\ raw_window' = LastN(console_logs, RawWindow)
    /\ console_logs' \in Pending(pc, console_logs)
    /\ Return
    /\ UNCHANGED <<prog, status, results, clicked, poseidon_logs, zk_logs,
                   circuit_files_ok, poseidon_ok, summary, logs_read, settled, fallback>>

\* browser.close()
Close ==
    /\ pc = "close"
    /\ console_logs' \in Dispatch(console_logs)
    /\ Return
    /\ UNCHANGED <<prog, status, results, clicked, ReportVars, settled, fallback>>

Next ==
    Probe \/ Goto \/ Step \/ Checkbox \/ Wait \/ Screenshot \/ Report \/ ReportRaw \/ Close

Spec == Init /\ [][Next]_vars

(* ---------------- the report stage on long buffers --------------------- *)

Digits == <<"0", "1", "2", "3", "4", "5", "6", "7", "8", "9">>

\* the text of the i-th message of a long run: its number, two digits
NumText(i) == <<Digits[(i \div 10) + 1], Digits[(i % 10) + 1]>>

MsgTypes == { <<"l","o","g">>, <<"w","a","r","n","i","n","g">>, <<"e","r","r","o","r">> }

\* the buffer after n messages of one type, each formatted by the handler
LongBuffer(n, type) == [i \in 1..n |-> Format([type |-> type, text |-> NumText(i)])]

\* test_deposit_flow at the start of its report stage, on a page that showed
\* none of the controls and logged up to MaxWindowLogs messages
InitWindow ==
    /\ prog = "dep"
    /\ pc = "report"
    /\ console_logs \in {LongBuffer(n, t) : n \in 0..MaxWindowLogs, t \in MsgTypes}
    /\ status = [r \in Resources |-> 0]
    /\ results = [i \in DOMAIN DepSteps |-> StepResult(DepSteps[i], "absent")]
    /\ clicked = <<>>
    /\ poseidon_logs = <<>>
    /\ zk_logs = <<>>
    /\ raw_window = <<>>
    /\ circuit_files_ok = FALSE
    /\ poseidon_ok = FALSE
    /\ summary = "none"
    /\ crash_cause = "none"
    /\ logs_read = -1
    /\ settled = TRUE
    /\ fallback = "absent"

NextWindow == Report \/ ReportRaw \/ Close

SpecWindow == InitWindow /\ [][NextWindow]_vars

TypeOK ==
    /\ prog \in {"zk", "dep"}
    /\ pc \in {"crashed"} \cup {Flow(prog)[i] : i \in DOMAIN Flow(prog)}
    /\ Len(console_logs) <= MaxLogs
    /\ \A r \in Resources : status[r] \in Statuses \cup {0}
    /\ summary \in {"none", Summary(TRUE, TRUE), Summary(FALSE, FALSE)}

(* ------------------------------ helpers -------------------------------- *)

Last(seq) == seq[Len(seq)]

\* the step names of the recorded results, in order
StepNames(rs) == [i \in 1..Len(rs) |-> rs[i].step]

\* the buffer as the report stage read it (the first logs_read lines)
ReadLogs == SubSeq(console_logs, 1, logs_read)

Reported == logs_read >= 0

Positive == "ZK integration is properly set up!"

RECURSIVE IsSubseq(_, _)
\* s can be obtained from t by deleting elements
IsSubseq(s, t) ==
    IF s = <<>> THEN TRUE
    ELSE IF t = <<>> THEN FALSE
    ELSE IF Head(s) = Head(t) THEN IsSubseq(Tail(s), Tail(t))
    ELSE IsSubseq(s, Tail(t))

(* ------------------------------- claims -------------------------------- *)

\* C1 (as claimed): a run that reaches its end has attempted every step of
\* the workflow and recorded exactly one result per step, in declared order.
C1_EveryStepAttempted ==
    pc = "done" => StepNames(results) = Steps(prog)

\* C2 (as claimed): no error raised inside a step action or a resource probe
\* ends the run in an unhandled crash.
C2_NoStepOrProbeCrash ==
    pc = "crashed" => crash_cause \notin {"step", "probe"}

\* C3: the verdict is positive exactly when all three probes answered 200 and
\* some line of the buffer the report read contains 'Poseidon note created'.
C3_VerdictIsConjunction ==
    (prog = "zk" /\ Reported) =>
        /\ summary = Positive <=>
              /\ \A r \in Resources : status[r] = 200
              /\ \E i \in DOMAIN ReadLogs : Contains(ReadLogs[i], Marker)
        /\ summary = Positive <=> (circuit_files_ok /\ poseidon_ok)

C3_Witness ==
    /\ prog = "zk" /\ Reported /\ summary = Positive
    /\ \E i \in DOMAIN ReadLogs : Contains(ReadLogs[i], Marker)

\* C4 (as claimed): the success signal is present iff some buffered line
\* contains the marker phrase compared case-insensitively.
C4_SignalCaseInsensitive ==
    (prog = "zk" /\ Reported) =>
        (poseidon_ok <=>
            \E i \in DOMAIN ReadLogs : Contains(Lower(ReadLogs[i]), Lower(Marker)))

\* C4 (amended): the success signal is present iff some buffered line contains
\* the marker phrase exactly as written (case-sensitive); absent on an empty buffer.
C4_SignalCaseSensitive ==
    (prog = "zk" /\ Reported) =>
        /\ poseidon_ok <=> \E i \in DOMAIN ReadLogs : Contains(ReadLogs[i], Marker)
        /\ ReadLogs = <<>> => ~poseidon_ok

C4_Witness ==
    /\ prog = "zk" /\ Reported /\ ~poseidon_ok
    /\ \E i \in DOMAIN ReadLogs : Contains(Lower(ReadLogs[i]), Lower(Marker))

\* C5: every keyword-filtered log is a subsequence of the buffer: only buffered
\* lines, each at most as often as buffered, in the same relative order.
C5_CorrelatedIsSubsequence ==
    /\ IsSubseq(poseidon_logs, console_logs)
    /\ IsSubseq(zk_logs, console_logs)
    /\ Reported => IsSubseq(poseidon_logs, ReadLogs) /\ IsSubseq(zk_logs, ReadLogs)

C5_Witness ==
    /\ Reported /\ logs_read >= 2
    /\ \E f \in {poseidon_logs, zk_logs} : Len(f) >= 1 /\ Len(f) < logs_read

\* C6 (as claimed): every filter the harness applies selects a buffered line
\* iff it selects the line's lower-case and upper-case permutations.
C6_CaseInsensitiveCorrelation ==
    \A i \in DOMAIN console_logs :
        LET log == console_logs[i] IN
        /\ prog = "zk" =>
              /\ PoseidonSel(log) <=> PoseidonSel(Lower(log))
              /\ PoseidonSel(log) <=> PoseidonSel(Upper(log))
              /\ ZkSetupSel(log) <=> ZkSetupSel(Lower(log))
              /\ ZkSetupSel(log) <=> ZkSetupSel(Upper(log))
        /\ prog = "dep" =>
              /\ ZkDepositSel(log) <=> ZkDepositSel(Lower(log))
              /\ ZkDepositSel(log) <=> ZkDepositSel(Upper(log))

\* C7: a step whose locator matches no element dispatches no action to the
\* page, is recorded as not matched, raises nothing, and control falls
\* through to the next statement of the flow.
C7_AbsentStepIsSkipped ==
    [][(Len(results') = Len(results) + 1 /\ ~Last(results').matched) =>
          /\ clicked' = clicked
          /\ ~Last(results').actionTaken
          /\ ~Last(results').error
          /\ crash_cause' = crash_cause
          /\ pc' = NextPc(prog, pc)
          /\ pc' # "crashed"]_vars

C7_Witness ==
    /\ Len(results) >= 2
    /\ ~results[1].matched
    /\ results[2].actionTaken
    /\ Len(clicked) = 1

\* C8 (as claimed): whatever the outcome of the earlier probes, all three
\* artifacts have been probed when the run ends.
C8_AllArtifactsProbed ==
    (prog = "zk" /\ pc \in {"done", "crashed"}) => \A r \in Resources : status[r] # 0

\* C9: resourceOk is true iff each of the three probes answered exactly 200.
C9_ResourceOkIffAll200 ==
    (prog = "zk" /\ Reported) =>
        /\ circuit_files_ok <=> \A r \in Resources : status[r] = 200
        /\ (\E r \in Resources : status[r] = 404) => ~circuit_files_ok

C9_Witness ==
    /\ prog = "zk" /\ Reported /\ ~circuit_files_ok
    /\ status["wasm"] = 200 /\ status["zkey"] = 204 /\ status["vk"] = 200

\* C10 (as claimed): once the verdict has read the buffer, no console event of
\* a page on which a step was performed is appended to it.
C10_NoAppendAfterVerdict ==
    (Reported /\ clicked # <<>>) => Len(console_logs) = logs_read

\* C10 (amended): the verdict is computed only after every step of the workflow
\* is behind the run, from the buffer as it stands at that moment; lines
\* appended later leave the lines read, and the views made of them, unchanged.
C10_VerdictAfterAllSteps ==
    Reported =>
        /\ pc # "crashed"
        /\ \A i \in DOMAIN Steps(prog) :
              IndexOf(Flow(prog), pc) > IndexOf(Flow(prog), Steps(prog)[i])
        /\ logs_read <= Len(console_logs)
        /\ zk_logs = (IF prog = "zk" THEN ZkSetupLogs(ReadLogs) ELSE ZkDepositLogs(ReadLogs))
        /\ prog = "zk" => poseidon_logs = PoseidonLogs(ReadLogs)

C10_Witness ==
    /\ Reported /\ clicked # <<>>
    /\ Len(console_logs) > logs_read

\* C11 (as claimed): exceeding the bound of a suspension point (here the
\* network-idle wait) never ends the run in a crash.
C11_TimeoutNeverCrashes ==
    pc = "crashed" => crash_cause # "timeout"

IsPrefix(s, t) == Len(s) <= Len(t) /\ SubSeq(t, 1, Len(s)) = s

\* C12: the buffer is append-only: every step leaves the lines already buffered
\* in place and in order and adds at most one line, at the end, which is a
\* formatted console message; the report stage and the probes write nothing.
C12_BufferAppendOnly ==
    [][/\ IsPrefix(console_logs, console_logs')
       /\ Len(console_logs') <= Len(console_logs) + 1
       /\ Len(console_logs') = Len(console_logs) + 1 =>
             \E m \in Msgs(prog) : Last(console_logs') = Format(m)
       /\ pc \in {"report", "probe_wasm", "probe_zkey", "probe_vk"} =>
             console_logs' = console_logs]_vars

C12_Witness ==
    /\ Len(console_logs) >= 2
    /\ console_logs[1] # console_logs[2]

\* C13: no line is appended while the report stage runs, so its reads see one
\* and the same buffer: when the report is over, the filtered logs, the raw
\* window and the success signal are all views of the buffer as first read.
C13_ReportReadsOneBuffer ==
    [][/\ pc \in HarnessLogic => console_logs' = console_logs
       /\ (pc \in HarnessLogic /\ pc' = "close") =>
             /\ ReadLogs' = console_logs
             /\ prog = "zk" =>
                   /\ poseidon_logs' = PoseidonLogs(console_logs)
                   /\ zk_logs' = ZkSetupLogs(console_logs)
                   /\ poseidon_ok' = PoseidonOk(PoseidonLogs(console_logs))
             /\ prog = "dep" =>
                   /\ zk_logs' = ZkDepositLogs(console_logs)
                   /\ raw_window' = LastN(console_logs, RawWindow)]_vars

C13_Witness ==
    /\ prog = "dep" /\ pc = "close" /\ logs_read = 2
    /\ Len(zk_logs) = 1 /\ raw_window = console_logs

\* the step a dispatched action belongs to (the container div stands for the toggle)
StepOfSelector(sel) ==
    IF sel = ContainerSelector THEN "checkbox_label"
    ELSE CHOOSE st \in {DepSteps[i] : i \in DOMAIN DepSteps} : SelectorOf(st) = sel

\* C14: the steps are attempted in declared order, none twice, and the actions
\* reach the page in that order, one per performed step: when a step is
\* attempted or acted on, no earlier step is attempted afterwards.
C14_StepsInDeclaredOrder ==
    /\ IsSubseq(StepNames(results), Steps(prog))
    /\ IsSubseq([i \in 1..Len(clicked) |-> StepOfSelector(clicked[i].selector)],
                Steps(prog))
    /\ [i \in 1..Len(clicked) |-> StepOfSelector(clicked[i].selector)]
          = StepNames(SelectSeq(results, LAMBDA r : r.actionTaken))
    /\ pc \in {Steps(prog)[i] : i \in DOMAIN Steps(prog)} =>
          \A i \in DOMAIN results :
              IndexOf(Steps(prog), results[i].step) < IndexOf(Steps(prog), pc)

C14_Witness ==
    /\ prog = "dep" /\ pc = "done"
    /\ Len(clicked) = Len(DepSteps)
    /\ StepNames(results) = DepSteps

\* C15 (as claimed): whenever a step resolves its element, a settle wait has
\* elapsed since the last action performed on the page.
C15_SettleBeforeNextStep ==
    [][Len(results') = Len(results) + 1 => settled]_vars

\* the result recorded for the confirmation toggle, if it was attempted
ToggleResults == SelectSeq(results, LAMBDA r : r.step = "checkbox_label")

\* C16 (as claimed): at most one of label and container div is clicked, the
\* container only when the label matched nothing, and when the label matched
\* nothing and the container div is on the page the container is acted on.
C16_ToggleFallbackChain ==
    /\ Cardinality({i \in DOMAIN clicked :
                      clicked[i].selector \in {SelectorOf("checkbox_label"),
                                               ContainerSelector}}) <= 1
    /\ (\E i \in DOMAIN clicked : clicked[i].selector = ContainerSelector) =>
          fallback = "present"
    /\ fallback = "present" => ToggleResults # <<>> /\ ToggleResults[1].matched

C18_ErrorSkipsOwnBlockOnly ==
    prog = "dep" =>
        /\ pc = "crashed" => crash_cause \in {"navigate", "timeout", "screenshot"}
        /\ \A i \in 1..(Len(results) - 1) :
              results[i].error => TryBlock(results[i + 1].step) = TryBlock(results[i].step) + 1
        /\ pc \in {"wait2000", "shot5", "report", "report_raw", "close", "done"} =>
              \A b \in 1..4 : \E i \in DOMAIN results : TryBlock(results[i].step) = b

C18_Witness ==
    /\ prog = "dep" /\ pc = "done"
    /\ Reported
    /\ results[1].error
    /\ StepNames(results) = <<"generate_btn", "amount_input", "sent_btn", "mock_btn">>
    /\ \A i \in DOMAIN results : results[i].error

\* C19: test_zk_setup looks for the marker in the Poseidon/commitment
\* filtered log, and the filter never changes the answer: the marker is in
\* the filtered log iff it is in the buffer as read, every buffer line
\* holding the marker is kept by the filter, and the marker itself holds the
\* keyword the filter looks for.
C19_PrefilterKeepsSignal ==
    (prog = "zk" /\ Reported) =>
        /\ PoseidonOk(poseidon_logs) <=> PoseidonOk(ReadLogs)
        /\ poseidon_ok <=> PoseidonOk(ReadLogs)
        /\ \A i \in DOMAIN ReadLogs :
              Contains(ReadLogs[i], Marker) =>
                  \E k \in DOMAIN poseidon_logs : poseidon_logs[k] = ReadLogs[i]
        /\ Contains(Marker, kw_Poseidon)

C19_Witness ==
    /\ prog = "zk" /\ Reported
    /\ poseidon_ok
    /\ logs_read = 2
    /\ Len(poseidon_logs) = 1
    /\ ~PoseidonSel(ReadLogs[1])
====
